---- MODULE Spec2Model ----
(***************************************************************************)
(* Trip-plan synthesis pipeline of the IDSS field trip planner:            *)
(* buildThreePlans and its helpers (services/locationService, latest       *)
(* revision) as a state machine.  One behaviour is one invocation of       *)
(* buildThreePlans; every await of an external provider is a step whose    *)
(* outcome is chosen by the environment.                                   *)
(*                                                                         *)
(* Geography: all places of the modelled world lie on the meridian of the  *)
(* default origin, and a latitude is written as its arc length in km, so   *)
(* the haversine distance of two places is exactly the difference of       *)
(* their latitudes.  Distances are metres, durations seconds, as in the    *)
(* code; values rounded by safe() are kept in hundredths.                  *)
(***************************************************************************)
EXTENDS Integers, Sequences, FiniteSets, TLC

VARIABLES
    form,        \* formData: the TripFormState of this invocation
    forceTemplates, \* second argument of buildThreePlans
    apiKey,      \* TRUE iff getGeminiApiKey() yields a key
    net,         \* "up" | "down": whether fetch can reach any provider
    faults,      \* provider calls that failed or returned nothing while net is up
    pc,          \* position of the invocation
    days,        \* daysInclusive(dep, ret), 0 before validation
    originGeo,   \* resolved origin, NoGeo before resolution
    resolvedStops,  \* stops resolved so far (multi-stop mode)
    complexRouteCandidate, \* TRUE iff complexRouteCandidate is non-null
    candidates,  \* candidate destinations (suggested-destination mode)
    pending,     \* loop work list: destinations / suggestions / candidates still to visit
    enriched,    \* enriched candidates
    chosen,      \* the three candidates selected for the tiers
    tierIdx,     \* index of the tier being processed (1..3)
    routeInfo,   \* routeInfo of the current tier, NoRoute outside a tier
    allPois,     \* POIs collected so far for the current tier / candidate
    curGeo,      \* candidate being enriched, NoGeo otherwise
    plansOut,    \* plans emitted so far
    calls,       \* external calls issued so far, in order
    error,       \* "none" | "input" | "infeasible" | "TypeError"
    arg,         \* arguments of a function applied on its own, NoArg in an invocation
    out          \* what that function returned, NoOut before it is applied

vars == << form, forceTemplates, apiKey, net, faults, pc, days, originGeo,
           resolvedStops, complexRouteCandidate, candidates, pending, enriched,
           chosen, tierIdx, routeInfo, allPois, curGeo, plansOut, calls, error,
           arg, out >>

(***************************************************************************)
(* Bounds of the model.                                                    *)
(***************************************************************************)
\* longest destination list of a request
MaxDests == 2
\* number of distinct departure / return days offered to a request
MaxDay == 2
\* provider calls that may fail or return nothing while the network is up
MaxFaults == 2

(***************************************************************************)
(* Utilities                                                               *)
(***************************************************************************)
NULL == "NULL"

Max(a, b) == IF a >= b THEN a ELSE b

Min(a, b) == IF a <= b THEN a ELSE b

Abs(a) == IF a >= 0 THEN a ELSE 0 - a

\* Math.round(n / d) for n >= 0, d > 0
RoundDiv(n, d) == (2 * n + d) \div (2 * d)

\* safe(n / d) in hundredths: Math.round((x + EPSILON) * 100) / 100
safe(n, d) == RoundDiv(100 * n, d)

(***************************************************************************)
(* Numbers.  A JavaScript number is an IEEE 754 double; the doubles of the *)
(* cost computation are kept exactly.  A natural number of any size is the *)
(* sequence of its digits in base 2^15, lowest first, without leading      *)
(* zeros; a double x >= 0 is the natural number x * 2^60 (every double     *)
(* from 2^-8 up is such a multiple).                                       *)
(***************************************************************************)
Base == 32768

RECURSIVE Pow2(_)
Pow2(k) == IF k = 0 THEN 1 ELSE 2 * Pow2(k - 1)

RECURSIVE BigOf(_)
BigOf(n) == IF n = 0 THEN << >> ELSE << n % Base >> \o BigOf(n \div Base)

RECURSIVE Trim(_)
Trim(a) == IF a # << >> /\ a[Len(a)] = 0 THEN Trim(SubSeq(a, 1, Len(a) - 1)) ELSE a

Digit(a, i) == IF i <= Len(a) THEN a[i] ELSE 0

RECURSIVE AddFrom(_, _, _, _)
AddFrom(a, b, i, carry) ==
    IF i > Len(a) /\ i > Len(b)
    THEN (IF carry = 0 THEN << >> ELSE << carry >>)
    ELSE LET t == Digit(a, i) + Digit(b, i) + carry
         IN  << t % Base >> \o AddFrom(a, b, i + 1, t \div Base)

BigAdd(a, b) == IF a = << >> THEN b ELSE IF b = << >> THEN a ELSE AddFrom(a, b, 1, 0)

RECURSIVE MulDigitFrom(_, _, _, _)
MulDigitFrom(a, k, i, carry) ==
    IF i > Len(a)
    THEN (IF carry = 0 THEN << >> ELSE << carry >>)
    ELSE LET t == (a[i] * k) + carry
         IN  << t % Base >> \o MulDigitFrom(a, k, i + 1, t \div Base)

\* a * k for a digit k
MulDigit(a, k) == IF a = << >> \/ k = 0 THEN << >> ELSE MulDigitFrom(a, k, 1, 0)

Zeros(n) == [i \in 1..n |-> 0]

\* a * Base^n
ShiftDigits(a, n) == IF a = << >> THEN << >> ELSE Zeros(n) \o a

RECURSIVE MulFrom(_, _, _)
MulFrom(a, b, j) ==
    IF j > Len(b) THEN << >>
    ELSE BigAdd(ShiftDigits(MulDigit(a, b[j]), j - 1), MulFrom(a, b, j + 1))

BigMul(a, b) == IF a = << >> \/ b = << >> THEN << >> ELSE MulFrom(a, b, 1)

RECURSIVE DivDigitFrom(_, _, _, _)
\* long division of a by k < 2^16 from digit i down: << quotient digits (low first), remainder >>
DivDigitFrom(a, k, i, rem) ==
    IF i = 0 THEN [q |-> << >>, r |-> rem]
    ELSE LET t == (rem * Base) + a[i]
             rest == DivDigitFrom(a, k, i - 1, t % k)
         IN  [q |-> Append(rest.q, t \div k), r |-> rest.r]

BigDivSmall(a, k) ==
    LET d == DivDigitFrom(a, k, Len(a), 0) IN [q |-> Trim(d.q), r |-> d.r]

RECURSIVE BitsOf(_)
BitsOf(n) == IF n = 0 THEN 0 ELSE 1 + BitsOf(n \div 2)

BitLen(a) == IF a = << >> THEN 0 ELSE (15 * (Len(a) - 1)) + BitsOf(a[Len(a)])

\* a * 2^s
ShiftLeft(a, s) == IF a = << >> THEN << >> ELSE ShiftDigits(MulDigit(a, Pow2(s % 15)), s \div 15)

\* floor(a / 2^s)
ShiftRight(a, s) ==
    IF a = << >> THEN << >> ELSE
    LET dropped == IF s \div 15 >= Len(a) THEN << >> ELSE SubSeq(a, (s \div 15) + 1, Len(a))
    IN  BigDivSmall(dropped, Pow2(s % 15)).q

\* TRUE iff a is a multiple of 2^s
RECURSIVE LowZero(_, _)
LowZero(a, s) ==
    IF s = 0 \/ a = << >> THEN TRUE
    ELSE IF s >= 15 THEN a[1] = 0 /\ LowZero(Tail(a), s - 15)
    ELSE a[1] % Pow2(s) = 0

\* bit s (bit 0 is the lowest) of a
BitAt(a, s) == Digit(a, (s \div 15) + 1) \div Pow2(s % 15) % 2

IsOdd(a) == a # << >> /\ a[1] % 2 = 1

\* a / 2^s rounded to the nearest integer, a tie to the even one; sticky tells of
\* a remainder already cut off below a
RoundShift(a, s, sticky) ==
    IF a = << >> \/ s = 0 THEN a
    ELSE LET q == ShiftRight(a, s)
             half == BitAt(a, s - 1) = 1
             below == ~LowZero(a, s - 1) \/ sticky
         IN  IF half /\ (below \/ IsOdd(q)) THEN BigAdd(q, << 1 >>) ELSE q

\* doubles >= 0: the natural number value * 2^Scale
Scale == 60

\* a * 2^k, for an a that is a multiple of 2^(-k) when k < 0
Rescale(a, k) == IF k >= 0 THEN ShiftLeft(a, k) ELSE ShiftRight(a, 0 - k)

\* the double nearest to a * 2^(-e), a tie to even (sticky as in RoundShift)
ToDouble(a, e, sticky) ==
    LET s == BitLen(a) - 53
    IN  IF a = << >> THEN << >>
        ELSE IF s <= 0 THEN Rescale(a, Scale - e)
        ELSE Rescale(RoundShift(a, s, sticky), (Scale - e) + s)

FInt(n) == ShiftLeft(BigOf(n), Scale)

FAdd(x, y) == IF x = << >> THEN y ELSE IF y = << >> THEN x ELSE ToDouble(BigAdd(x, y), Scale, FALSE)

FMul(x, y) == IF x = << >> \/ y = << >> THEN << >> ELSE ToDouble(BigMul(x, y), 2 * Scale, FALSE)

\* x / k for an integer 0 < k < 2^16
FDivInt(x, k) ==
    IF x = << >> THEN << >> ELSE
    LET d == BigDivSmall(ShiftLeft(x, 75), k)
    IN  ToDouble(d.q, Scale + 75, d.r # 0)

\* Math.round(x)
RECURSIVE IntOf(_)
IntOf(a) == IF a = << >> THEN 0 ELSE a[1] + (Base * IntOf(Tail(a)))

FRound(x) == IF x = << >> THEN 0 ELSE IntOf(ShiftRight(BigAdd(x, ShiftLeft(<< 1 >>, Scale - 1)), Scale))

\* the literal num / den (den a power of ten): the double nearest to it
FDec(num, den) == FDivInt(FInt(num), den)

EPSILON == ShiftLeft(<< 1 >>, Scale - 52)

Hundred == FInt(100)

\* safe(x) for a double x, in cents: Math.round((x + Number.EPSILON) * 100)
safeCents(x) == FRound(FMul(FAdd(x, EPSILON), Hundred))

\* the double a safe() of c cents returned: c / 100
FCents(c) == FDivInt(FInt(c), 100)

(***************************************************************************)
(* Dates.  A date text is a record: fmt "iso" is "YYYY-MM-DD", fmt "dmy"   *)
(* is three numeric parts "D.M.Y" (any of the separators . / - space),     *)
(* fmt "junk" is any other text.  d, m, y are the values of the parts once *)
(* leading zeros are stripped.                                             *)
(***************************************************************************)
NoDate == [ok |-> FALSE, d |-> 0, m |-> 0, y |-> 0]

IsLeap(y) == (y % 4 = 0 /\ y % 100 # 0) \/ y % 400 = 0

mdays(y) == << 31, IF IsLeap(y) THEN 29 ELSE 28, 31, 30, 31, 30, 31, 31, 30, 31, 30, 31 >>

YearDigits(y) == IF y < 10 THEN 1 ELSE IF y < 100 THEN 2 ELSE IF y < 1000 THEN 3 ELSE 4

\* the year after the 1- and 2-digit expansions; 0 when the length is rejected
ExpandYear(y) ==
    CASE YearDigits(y) = 2 -> IF y <= 49 THEN 2000 + y ELSE 1900 + y
      [] YearDigits(y) = 1 -> 2000 + y
      [] YearDigits(y) = 3 -> 0
      [] OTHER -> y

normalizeDate(input) ==
    CASE input.fmt = "iso" -> [ok |-> TRUE, d |-> input.d, m |-> input.m, y |-> input.y]
      [] input.fmt = "dmy" ->
            LET y == ExpandYear(input.y)
            IN  IF y = 0 \/ input.m < 1 \/ input.m > 12 THEN NoDate
                ELSE IF input.d < 1 \/ input.d > mdays(y)[input.m] THEN NoDate
                ELSE [ok |-> TRUE, d |-> input.d, m |-> input.m, y |-> y]
      [] OTHER -> NoDate

\* leap days before 1 January of year y
LeapsBefore(y) == ((y - 1) \div 4) - ((y - 1) \div 100) + ((y - 1) \div 400)

RECURSIVE DaysBeforeMonth(_, _)
DaysBeforeMonth(y, m) == IF m <= 1 THEN 0 ELSE DaysBeforeMonth(y, m - 1) + mdays(y)[m - 1]

\* new Date(y, m - 1, d) as a day number; a month or day out of range rolls over
DateOf(y, m, d) ==
    LET yy == y + ((m - 1) \div 12)
        mm == ((m - 1) % 12) + 1
    IN  365 * (yy - 1) + LeapsBefore(yy) + DaysBeforeMonth(yy, mm) + d - 1

\* parseDateNormalized: the day number, or -1 for null
parseDateNormalized(s) ==
    LET n == normalizeDate(s)
    IN  IF ~n.ok THEN 0 - 1 ELSE DateOf(n.y, n.m, n.d)

\* new Date(y, m, d) is midnight of the day in the local time zone, and getTime()
\* its instant.  The zone is that of the school, Europe/Sarajevo: an hour ahead
\* of UTC, and two hours ahead after 01:00 UTC of the last Sunday of March
\* until 01:00 UTC of the last Sunday of October.  Day 0 is a Monday.
LastSunday(y, m) ==
    LET d == CHOOSE d \in 25..31 : DateOf(y, m, d) % 7 = 6
    IN  DateOf(y, m, d)

RECURSIVE YearOf(_, _)
YearOf(date, y) == IF DateOf(y + 1, 1, 1) > date THEN y ELSE YearOf(date, y + 1)

\* hours ahead of UTC at midnight of the day
UtcOffset(date) ==
    LET y == YearOf(date, 1 + (date \div 366))
    IN  IF LastSunday(y, 3) < date /\ date <= LastSunday(y, 10) THEN 2 ELSE 1

\* getTime(), in hours
getTime(date) == (24 * date) - UtcOffset(date)

\* a count that takes whole days only
daysInclusive_Floor(a, b) == ((getTime(b) - getTime(a)) \div 24) + 1

\* Math.round((b.getTime() - a.getTime()) / (1000 * 60 * 60 * 24)) + 1
daysInclusive(a, b) == RoundDiv(getTime(b) - getTime(a), 24) + 1

(***************************************************************************)
(* Constants of the program                                                *)
(***************************************************************************)
\* IDSS_COORDS: 43.8563 N is 4877 km of arc, 18.4131 E in hundredths of a degree
\* amounts in EUR, but bus_cost_per_km_per_bus and teacher_discount in tenths
RATES ==
    [ bus_capacity |-> 50,
      bus_cost_per_km_per_bus_x10 |-> 11,
      flight_per_person_avg |-> 150,
      train_per_person_avg |-> 60,
      accommodation_per_person_per_night_budget |-> 25,
      accommodation_per_person_per_night_balanced |-> 45,
      accommodation_per_person_per_night_premium |-> 80,
      meals_per_person_per_day |-> 15,
      entry_fee_per_student_avg |-> 7,
      teacher_discount_x10 |-> 5 ]

\* no function is being applied on its own
NoArg == [fn |-> "none"]

NoOut == [fn |-> "none"]

IDSS_COORDS == [lat |-> 4877, lng |-> 1841, label |-> "IDSS (Sarajevo)"]

SUGGESTED_CITIES ==
    << [country |-> "Bosnia and Herzegovina", cities |-> << "Sarajevo", "Mostar", "Tuzla" >>],
       [country |-> "Croatia", cities |-> << "Zagreb", "Split", "Dubrovnik" >>],
       [country |-> "Serbia", cities |-> << "Belgrade", "Novi Sad", "Nis" >>],
       [country |-> "Austria", cities |-> << "Vienna", "Salzburg", "Innsbruck" >>],
       [country |-> "Germany", cities |-> << "Berlin", "Munich", "Hamburg" >>],
       [country |-> "Italy", cities |-> << "Venice", "Florence", "Rome" >>],
       [country |-> "Hungary", cities |-> << "Budapest", "Szeged", "Pecs" >>] >>

tiers == << "budget", "balanced", "premium" >>

(***************************************************************************)
(* The world the providers answer from: the places they know, each with    *)
(* its latitude (km of arc on the meridian of the default origin).         *)
(***************************************************************************)
WorldLat ==
    [c \in { "Sarajevo", "Mostar", "Tuzla", "Zagreb", "Split", "Dubrovnik", "Belgrade",
             "Novi Sad", "Nis", "Vienna", "Salzburg", "Innsbruck", "Berlin" } |->
        CASE c = "Sarajevo" -> 4877 [] c = "Mostar" -> 4820 [] c = "Tuzla" -> 4952
          [] c = "Zagreb" -> 5167 [] c = "Split" -> 4837 [] c = "Dubrovnik" -> 4742
          [] c = "Belgrade" -> 4982 [] c = "Novi Sad" -> 5032 [] c = "Nis" -> 4816
          [] c = "Vienna" -> 5360 [] c = "Salzburg" -> 5315 [] c = "Innsbruck" -> 5256
          [] OTHER -> 5840]

\* the place a query text names: two texts can name the same place
Canon(q) == IF q = "Grad Zagreb" THEN "Zagreb" ELSE q

NoRoute == [distance_m |-> 0, duration_s |-> 0, polyline |-> << >>]

NoGeo == [lat |-> 0, lng |-> 0, name |-> "", source |-> "none", url |-> NULL]

\* what a provider call can do: answer, answer with nothing, or fail
Outcomes == { "ok", "none", "fail" }

\* the environment allows outcome o now: nothing answers while the network is
\* down, and at most MaxFaults calls go wrong while it is up
Allowed(o, used) ==
    IF net = "down" THEN o = "fail" ELSE o = "ok" \/ faults + used < MaxFaults

FaultOf(o) == IF net = "up" /\ o # "ok" THEN 1 ELSE 0

\* the record of one external call: the provider, the query, whether it gave a
\* result, and where the invocation was
Call(api, q, hit) == [api |-> api, q |-> q, hit |-> hit, at |-> pc, tier |-> tierIdx]

(***************************************************************************)
(* API calls                                                               *)
(***************************************************************************)
\* geocodeGeoNames: first hit of the gazetteer, or null on no hit / any error
geocodeGeoNames(city, o) ==
    IF o = "ok"
    THEN [lat |-> WorldLat[Canon(city)], lng |-> IDSS_COORDS.lng,
          name |-> Canon(city) \o ", " \o "Region", source |-> "geonames",
          url |-> "https://www.geonames.org/" \o Canon(city)]
    ELSE NoGeo

\* geocodeORS: first feature of the search, or null on no feature / any error
geocodeORS(city, o) ==
    IF o = "ok"
    THEN [lat |-> WorldLat[Canon(city)], lng |-> IDSS_COORDS.lng,
          name |-> Canon(city), source |-> "ors", url |-> NULL]
    ELSE NoGeo

\* outcomes of `await geocodeGeoNames(q1) || await geocodeORS(q2)`: the ORS
\* call is made only when GeoNames gave null
ResolveOutcomes ==
    { r \in Outcomes \X (Outcomes \cup { "skipped" }) :
        /\ (r[1] = "ok") = (r[2] = "skipped")
        /\ Allowed(r[1], 0)
        /\ r[2] # "skipped" => Allowed(r[2], FaultOf(r[1])) }

ResolveGeo(city, r) ==
    IF r[1] = "ok" THEN geocodeGeoNames(city, "ok") ELSE geocodeORS(city, r[2])

ResolveCalls(q1, q2, r) ==
    << Call("geonames", q1, r[1] = "ok") >>
    \o (IF r[2] = "skipped" THEN << >> ELSE << Call("orsGeocode", q2, r[2] = "ok") >>)

ResolveFaults(r) == FaultOf(r[1]) + (IF r[2] = "skipped" THEN 0 ELSE FaultOf(r[2]))

(***************************************************************************)
(* Requests                                                                *)
(***************************************************************************)
JunkDate == [fmt |-> "junk", d |-> 0, m |-> 0, y |-> 0]

DateTexts == { JunkDate } \cup { [fmt |-> "dmy", d |-> 20 + k, m |-> 9, y |-> 2025] : k \in 1..MaxDay }

DestTexts == { "", "Mostar", "Zagreb" }

OriginTexts == { "", "Tuzla" }

TripTypes == { "Multi-day excursion", "One-day excursion" }

DestLists == UNION { [1..n -> DestTexts] : n \in 0..MaxDests }

\* num_students of the requests
StudentCounts == { 2 }

\* the teachers field, as the texts between its commas
TeacherTexts == { << "Anes Memic", "Victoria Bartz" >> }

\* transport_pref of the requests
TransportPrefs == { "bus" }

Forms ==
    [ origin : OriginTexts, destinations : DestLists, trip_type : TripTypes,
      dep_date : DateTexts, ret_date : DateTexts, num_students : StudentCounts,
      teachers : TeacherTexts, transport_pref : TransportPrefs ]

\* s.trim().length > 0
NonBlank(t) == t # "" /\ t # " "

\* trip_type.toLowerCase().includes('multi')
IsMulti(t) == t = "Multi-day excursion"

RECURSIVE FilterNonBlank(_)
FilterNonBlank(ds) ==
    IF ds = << >> THEN << >>
    ELSE (IF NonBlank(Head(ds)) THEN << Head(ds) >> ELSE << >>) \o FilterNonBlank(Tail(ds))

validDestinations == FilterNonBlank(form.destinations)

(***************************************************************************)
(* Candidates of the suggested-destination mode                            *)
(***************************************************************************)
RECURSIVE CuratedFrom(_)
CuratedFrom(groups) ==
    IF groups = << >> THEN << >>
    ELSE [i \in 1..Len(Head(groups).cities) |->
            [city |-> Head(groups).cities[i], country |-> Head(groups).country,
             lat |-> 0, lng |-> 0]]
         \o CuratedFrom(Tail(groups))

\* the curated fallback: every city of SUGGESTED_CITIES, truncated to 12
CuratedCandidates ==
    LET all == CuratedFrom(SUGGESTED_CITIES)
    IN  IF Len(all) > 12 THEN SubSeq(all, 1, 12) ELSE all

HardcodedFallback ==
    [city |-> "Sarajevo, BiH", lat |-> 4877, lng |-> 1841, pois |-> << >>]

\* a selection that pads the missing slots with the hardcoded fallback instead
\* of an enriched candidate
Select_PadHardcoded(enr) ==
    IF Len(enr) >= 3 THEN << enr[1], enr[2], enr[3] >>
    ELSE [i \in 1..3 |-> IF i <= Len(enr) THEN enr[i] ELSE HardcodedFallback]

\* the three candidates of the tiers, from the enriched list
Select(enr) ==
    IF Len(enr) >= 3 THEN << enr[1], enr[2], enr[3] >>
    ELSE LET base == IF enr = << >> THEN << HardcodedFallback >> ELSE enr
         IN  [i \in 1..3 |-> IF i <= Len(base) THEN base[i] ELSE base[1]]

(***************************************************************************)
(* Initial state: a request, the environment, nothing done yet             *)
(***************************************************************************)
Init ==
    /\ form \in Forms
    /\ forceTemplates \in BOOLEAN
    /\ apiKey \in BOOLEAN
    /\ net \in { "up", "down" }
    /\ faults = 0
    /\ pc = "Validating"
    /\ days = 0
    /\ originGeo = NoGeo
    /\ resolvedStops = << >>
    /\ complexRouteCandidate = FALSE
    /\ candidates = << >>
    /\ pending = << >>
    /\ enriched = << >>
    /\ chosen = << >>
    /\ tierIdx = 0
    /\ routeInfo = NoRoute
    /\ allPois = << >>
    /\ curGeo = NoGeo
    /\ plansOut = << >>
    /\ calls = << >>
    /\ error = "none"
    /\ arg = NoArg
    /\ out = NoOut

\* a guard that lets the AI and POI steps run whatever forceTemplates is
UseProviders_Always == TRUE

\* the guard `!forceTemplates` of every AI and POI step
UseProviders == ~forceTemplates

\* throw: the invocation ends without a result
Throw(e) ==
    /\ pc' = "Failed"
    /\ error' = e

\* buildThreePlans, validation of the dates and the trip type
Validate ==
    /\ pc = "Validating"
    /\ LET dep == parseDateNormalized(form.dep_date)
           ret == parseDateNormalized(form.ret_date)
       IN  IF dep < 0 \/ ret < 0 THEN Throw("input") /\ days' = days
           ELSE IF dep > ret THEN Throw("input") /\ days' = days
           ELSE IF IsMulti(form.trip_type) /\ daysInclusive(dep, ret) < 2
                THEN Throw("input") /\ days' = days
           ELSE /\ days' = daysInclusive(dep, ret)
                /\ pc' = "ResolvingOrigin"
                /\ error' = error
    /\ UNCHANGED << arg, out, form, forceTemplates, apiKey, net, faults, originGeo, resolvedStops,
                    complexRouteCandidate, candidates, pending, enriched, chosen, tierIdx,
                    routeInfo, allPois, curGeo, plansOut, calls >>

\* the loop over the candidates starts: with no candidate it is over at once
\* and the three slots are filled from the empty enriched list
BeginEnrich(cands) ==
    /\ candidates' = cands
    /\ enriched' = << >>
    /\ IF cands = << >>
       THEN /\ pending' = << >>
            /\ chosen' = Select(<< >>)
            /\ pc' = "TierRoute"
            /\ tierIdx' = 1
       ELSE /\ pending' = cands
            /\ chosen' = << >>
            /\ pc' = "Enriching"
            /\ tierIdx' = 0

\* no default: the origin stays null
DefaultOrigin_Null == NoGeo

DefaultOrigin ==
    [lat |-> IDSS_COORDS.lat, lng |-> IDSS_COORDS.lng, name |-> "IDSS Sarajevo",
     source |-> "default", url |-> NULL]

\* buildThreePlans, origin resolution and the choice of the mode
ResolveOrigin ==
    /\ pc = "ResolvingOrigin"
    /\ \E r \in ResolveOutcomes :
        LET blank == ~NonBlank(form.origin)
            ge == IF blank THEN NoGeo ELSE ResolveGeo(form.origin, r)
        IN  /\ blank => r = << "ok", "skipped" >> \/ (net = "down" /\ r = << "fail", "fail" >>)
            /\ originGeo' = IF ge = NoGeo THEN DefaultOrigin ELSE ge
            /\ calls' = IF blank THEN calls
                        ELSE calls \o ResolveCalls(form.origin, form.origin, r)
            /\ faults' = IF blank THEN faults ELSE faults + ResolveFaults(r)
    /\ IF validDestinations # << >>
       THEN /\ pending' = validDestinations
            /\ pc' = "ResolvingDestinations"
            /\ UNCHANGED << candidates, enriched, chosen, tierIdx >>
       ELSE IF UseProviders /\ apiKey
            THEN /\ pc' = "Suggesting"
                 /\ UNCHANGED << candidates, pending, enriched, chosen, tierIdx >>
            ELSE BeginEnrich(CuratedCandidates)
    /\ UNCHANGED << arg, out, form, forceTemplates, apiKey, net, days, resolvedStops,
                    complexRouteCandidate, routeInfo, allPois, curGeo, plansOut, error >>

\* a loop body that puts a resolved destination in front of the earlier ones
pushResolved_Prepend(stops, ge) == IF ge = NoGeo THEN stops ELSE << ge >> \o stops

\* if (ge) resolvedStops.push(ge)
pushResolved(stops, ge) == IF ge = NoGeo THEN stops ELSE Append(stops, ge)

\* one iteration of the loop over validDestinations
ResolveDestination ==
    /\ pc = "ResolvingDestinations"
    /\ pending # << >>
    /\ \E r \in ResolveOutcomes :
        LET dest == Head(pending)
            ge == ResolveGeo(dest, r)
            stops == pushResolved(resolvedStops, ge)
        IN  /\ resolvedStops' = stops
            /\ calls' = calls \o ResolveCalls(dest, dest, r)
            /\ faults' = faults + ResolveFaults(r)
            /\ IF Tail(pending) # << >>
               THEN /\ pending' = Tail(pending)
                    /\ UNCHANGED << pc, complexRouteCandidate, candidates, enriched, chosen, tierIdx >>
               ELSE IF stops # << >>
                    THEN /\ complexRouteCandidate' = TRUE
                         /\ pending' = << >>
                         /\ pc' = "TierRoute"
                         /\ tierIdx' = 1
                         /\ UNCHANGED << candidates, enriched, chosen >>
                    ELSE /\ BeginEnrich(<< >>)
                         /\ UNCHANGED complexRouteCandidate
    /\ UNCHANGED << arg, out, form, forceTemplates, apiKey, net, days, originGeo, routeInfo,
                    allPois, curGeo, plansOut, error >>

(***************************************************************************)
(* AI destination suggestion                                               *)
(***************************************************************************)
\* titles of the grounding chunks a suggestion call can answer with (distinct,
\* as getGeminiSuggestions keeps the first of equal titles)
SuggestResponses ==
    { << "Zagreb" >>,
      << "Zagreb", "Grad Zagreb", "Vienna" >>,
      << "Mostar", "Tuzla", "Zagreb", "Vienna", "Berlin" >> }

\* geminiSuggs.slice(0, 4)
FirstFour(ls) == IF Len(ls) > 4 THEN SubSeq(ls, 1, 4) ELSE ls

\* the curated list replaces an empty candidate list
OrCurated(cands) == IF cands = << >> THEN CuratedCandidates ELSE cands

\* getGeminiSuggestions (called only when not forceTemplates and a key exists)
SuggestDestinations ==
    /\ pc = "Suggesting"
    /\ \E o \in Outcomes : \E resp \in SuggestResponses :
        LET geminiSuggs == IF o = "ok" THEN FirstFour(resp) ELSE << >>
        IN  /\ Allowed(o, 0)
            /\ o # "ok" => resp = << "Zagreb" >>
            /\ calls' = Append(calls, Call("geminiSuggest", originGeo.name, geminiSuggs # << >>))
            /\ faults' = faults + FaultOf(o)
            /\ IF geminiSuggs # << >>
               THEN /\ pending' = geminiSuggs
                    /\ pc' = "ResolvingSuggestions"
                    /\ UNCHANGED << candidates, enriched, chosen, tierIdx >>
               ELSE BeginEnrich(CuratedCandidates)
    /\ UNCHANGED << arg, out, form, forceTemplates, apiKey, net, days, originGeo, resolvedStops,
                    complexRouteCandidate, routeInfo, allPois, curGeo, plansOut, error >>

\* one iteration of the loop over the suggestions
ResolveSuggestion ==
    /\ pc = "ResolvingSuggestions"
    /\ pending # << >>
    /\ \E r \in ResolveOutcomes :
        LET label == Head(pending)
            ge == ResolveGeo(label, r)
            known == \E i \in 1..Len(candidates) : candidates[i].city = ge.name
            cands == IF ge = NoGeo \/ known THEN candidates
                     ELSE Append(candidates,
                                 [city |-> ge.name, country |-> "", lat |-> ge.lat, lng |-> ge.lng])
        IN  /\ calls' = calls \o ResolveCalls(label, label, r)
            /\ faults' = faults + ResolveFaults(r)
            /\ IF Tail(pending) # << >>
               THEN /\ pending' = Tail(pending)
                    /\ candidates' = cands
                    /\ UNCHANGED << pc, enriched, chosen, tierIdx >>
               ELSE BeginEnrich(OrCurated(cands))
    /\ UNCHANGED << arg, out, form, forceTemplates, apiKey, net, days, originGeo, resolvedStops,
                    complexRouteCandidate, routeInfo, allPois, curGeo, plansOut, error >>

(***************************************************************************)
(* POI providers                                                           *)
(***************************************************************************)
\* names of the places an OpenTripMap call can answer with
\* (OpenTripMap knows twelve places around Zagreb and two around any other city)
OtmResponses(lat) ==
    IF lat = WorldLat["Zagreb"]
    THEN { << "City Museum", "Old Bridge", "Cathedral", "Technical Museum", "Botanical Garden",
              "Upper Town", "Art Pavilion", "Funicular", "Stone Gate", "Lotrscak Tower",
              "Mirogoj", "Maksimir Park" >> }
    ELSE { << "City Museum", "Old Bridge" >> }

\* bindings a Wikidata call can answer with
WikiResponses ==
    { << [label |-> "City Museum", site |-> NULL],
         [label |-> "Science Centre", site |-> "http://science.example"] >> }

RECURSIVE KeepNamed(_)
KeepNamed(ps) ==
    IF ps = << >> THEN << >>
    ELSE (IF NonBlank(Head(ps).label) THEN << Head(ps) >> ELSE << >>) \o KeepNamed(Tail(ps))

fetchOpenTripMapPOIs(lat, o, resp) ==
    IF o # "ok" THEN << >>
    ELSE KeepNamed([i \in 1..Len(resp) |->
            [label |-> resp[i], lat |-> lat,
             url |-> "https://opentripmap.com/en/card/" \o resp[i], source |-> "opentripmap"]])

wikidataPOIs(lat, o, resp) ==
    IF o # "ok" THEN << >>
    ELSE [i \in 1..Len(resp) |->
            [label |-> resp[i].label, lat |-> lat, url |-> resp[i].site, source |-> "wikidata"]]

HasLabel(ps, l) == \E i \in 1..Len(ps) : ps[i].label = l

\* wiki.forEach(w => { if (!pois.some(p => p.label === w.label)) pois.push(w) })
RECURSIVE PushNew(_, _)
PushNew(ps, ws) ==
    IF ws = << >> THEN ps
    ELSE PushNew(IF HasLabel(ps, Head(ws).label) THEN ps ELSE Append(ps, Head(ws)), Tail(ws))

\* a slice that keeps the first entry only
FirstN_One(sq, n) == IF sq = << >> THEN << >> ELSE << sq[1] >>

\* sq.slice(0, n)
FirstN(sq, n) == IF Len(sq) > n THEN SubSeq(sq, 1, n) ELSE sq

\* a test that sends every list on to the next provider
Few_Always(ps, n) == TRUE

\* pois.length < n: the list is short enough for the next provider to be asked
Few(ps, n) == Len(ps) < n

(***************************************************************************)
(* Enrichment of the candidates (suggested-destination mode)               *)
(***************************************************************************)
\* enriched.push(...), then the loop ends (3 enriched or no candidate left) or goes on
PushEnriched(ge, pois, rest) ==
    LET enr == Append(enriched, [city |-> ge.name, lat |-> ge.lat, lng |-> ge.lng,
                                 pois |-> FirstN(pois, 10)])
    IN  /\ enriched' = enr
        /\ curGeo' = NoGeo
        /\ allPois' = << >>
        /\ IF Len(enr) >= 3 \/ rest = << >>
           THEN /\ pending' = << >>
                /\ chosen' = Select(enr)
                /\ pc' = "TierRoute"
                /\ tierIdx' = 1
           ELSE /\ pending' = rest
                /\ pc' = "Enriching"
                /\ UNCHANGED << chosen, tierIdx >>

\* one iteration of the loop over the candidates, up to its first POI call
EnrichCandidate ==
    /\ pc = "Enriching"
    /\ pending # << >>
    /\ LET c == Head(pending)
           hasCoords == c.lat # 0 /\ c.lng # 0
       IN  \E r \in ResolveOutcomes :
            LET ge == IF hasCoords
                      THEN [lat |-> c.lat, lng |-> c.lng, name |-> c.city,
                            source |-> "input", url |-> NULL]
                      ELSE ResolveGeo(c.city, r)
                q1 == c.city \o (IF c.country # "" THEN ", " \o c.country ELSE "")
            IN  /\ hasCoords => r = << "ok", "skipped" >> \/ (net = "down" /\ r = << "fail", "fail" >>)
                /\ calls' = IF hasCoords THEN calls ELSE calls \o ResolveCalls(q1, c.city, r)
                /\ faults' = IF hasCoords THEN faults ELSE faults + ResolveFaults(r)
                /\ IF ge = NoGeo
                   THEN /\ UNCHANGED << enriched, curGeo, allPois >>
                        /\ IF Tail(pending) # << >>
                           THEN /\ pending' = Tail(pending)
                                /\ UNCHANGED << pc, chosen, tierIdx >>
                           ELSE /\ pending' = << >>
                                /\ chosen' = Select(enriched)
                                /\ pc' = "TierRoute"
                                /\ tierIdx' = 1
                   ELSE IF ~UseProviders
                        THEN PushEnriched(ge, << >>, Tail(pending))
                        ELSE /\ curGeo' = ge
                             /\ pc' = "EnrichOtm"
                             /\ UNCHANGED << pending, enriched, chosen, tierIdx, allPois >>
    /\ UNCHANGED << arg, out, form, forceTemplates, apiKey, net, days, originGeo, resolvedStops,
                    complexRouteCandidate, candidates, routeInfo, plansOut, error >>

\* fetchOpenTripMapPOIs for the candidate being enriched
EnrichOtm ==
    /\ pc = "EnrichOtm"
    /\ \E o \in Outcomes : \E resp \in OtmResponses(curGeo.lat) :
        LET pois == fetchOpenTripMapPOIs(curGeo.lat, o, resp)
        IN  /\ Allowed(o, 0)
            /\ calls' = Append(calls, Call("opentripmap", curGeo.name, pois # << >>))
            /\ faults' = faults + FaultOf(o)
            /\ IF Few(pois, 5)
               THEN /\ allPois' = pois
                    /\ pc' = "EnrichWiki"
                    /\ UNCHANGED << pending, enriched, chosen, tierIdx, curGeo >>
               ELSE PushEnriched(curGeo, pois, Tail(pending))
    /\ UNCHANGED << arg, out, form, forceTemplates, apiKey, net, days, originGeo, resolvedStops,
                    complexRouteCandidate, candidates, routeInfo, plansOut, error >>

\* wikidataPOIs for the candidate being enriched, merged by label
EnrichWiki ==
    /\ pc = "EnrichWiki"
    /\ \E o \in Outcomes : \E resp \in WikiResponses :
        /\ Allowed(o, 0)
        /\ calls' = Append(calls, Call("wikidata", curGeo.name, o = "ok"))
        /\ faults' = faults + FaultOf(o)
        /\ PushEnriched(curGeo, PushNew(allPois, wikidataPOIs(curGeo.lat, o, resp)), Tail(pending))
    /\ UNCHANGED << arg, out, form, forceTemplates, apiKey, net, days, originGeo, resolvedStops,
                    complexRouteCandidate, candidates, routeInfo, plansOut, error >>

(***************************************************************************)
(* Route                                                                   *)
(***************************************************************************)
\* haversineDistance in metres, for two places of the meridian
haversineDistance(lat1, lat2) == Abs(lat2 - lat1) * 1000

RECURSIVE PathMeters(_)
PathMeters(lats) ==
    IF Len(lats) < 2 THEN 0
    ELSE haversineDistance(lats[1], lats[2]) + PathMeters(Tail(lats))

\* the route the directions service finds for these points: the road is a fifth
\* longer than the great circle and driven at 80 km/h
RoadRoute(lats) ==
    [distance_m |-> (PathMeters(lats) * 6) \div 5,
     duration_s |-> (PathMeters(lats) * 54) \div 1000,
     polyline |-> lats]

\* what the directions service answers with: the route, or a feature that has
\* the summary of the route and no geometry (coords is then [])
RouteResponses(lats) ==
    { RoadRoute(lats), [RoadRoute(lats) EXCEPT !.polyline = << >>] }

\* orsRouteDistance: null on any error; without a summary the distance is null
orsRouteDistance(o, resp) ==
    CASE o = "ok" -> resp
      [] o = "none" -> [distance_m |-> 0, duration_s |-> 0, polyline |-> resp.polyline]
      [] OTHER -> NoRoute

\* the haversine fallback: 50 km/h along the straight sequence of the points;
\* (m / 50000) * 3600 with the fraction reduced
FallbackRoute(lats) ==
    [distance_m |-> PathMeters(lats),
     duration_s |-> (PathMeters(lats) * 9) \div 125,
     polyline |-> lats]

\* routeInfo of a tier: the provider's when it has a distance, the fallback otherwise
RouteOf(lats, o, resp) ==
    LET ri == orsRouteDistance(o, resp)
    IN  IF o = "fail" \/ ri.distance_m = 0 THEN FallbackRoute(lats) ELSE ri

\* travel_time_h * 2 > days * 9
Infeasible(ri, d) == ri.duration_s * 2 > d * 9 * 3600

(***************************************************************************)
(* Gemini itinerary                                                        *)
(***************************************************************************)
NoGen == [itinerary |-> << >>, poi_descriptions |-> << >>]

RawDays(d) ==
    [i \in 1..d |-> [isObj |-> TRUE, day |-> d + 1 - i, description |-> "Day plan",
                     poi_name |-> "City Museum"]]

\* a text that is no JSON: what the outcome "none" of the itinerary call is
Unparseable ==
    [parses |-> FALSE, hasItinerary |-> FALSE, itinerary |-> << >>,
     hasPd |-> FALSE, poi_descriptions |-> << >>]

\* texts a generateContent call can answer with, as the JSON they hold
AiResponses(d) ==
    { [parses |-> TRUE, hasItinerary |-> TRUE, itinerary |-> RawDays(d), hasPd |-> TRUE,
       poi_descriptions |-> << [isObj |-> TRUE, hasName |-> TRUE, name |-> "City Museum",
                                description |-> "A museum."] >>],
      [parses |-> TRUE, hasItinerary |-> TRUE, itinerary |-> RawDays(d), hasPd |-> TRUE,
       poi_descriptions |-> << [isObj |-> TRUE, hasName |-> FALSE, name |-> "",
                                description |-> "A museum."] >>] }

\* insertion of e into a list sorted by day, after the entries of the same day
RECURSIVE InsertByDay(_, _)
InsertByDay(sorted, e) ==
    IF sorted = << >> THEN << e >>
    ELSE IF Head(sorted).day <= e.day THEN << Head(sorted) >> \o InsertByDay(Tail(sorted), e)
    ELSE << e >> \o sorted

\* .sort((a, b) => a.day - b.day)
RECURSIVE SortByDay(_)
SortByDay(es) ==
    IF es = << >> THEN << >>
    ELSE InsertByDay(SortByDay(SubSeq(es, 1, Len(es) - 1)), es[Len(es)])

\* generateGeminiItinerary: everything after the key check runs inside try/catch
generateGeminiItinerary(o, resp) ==
    LET json == IF o = "none" THEN Unparseable ELSE resp
    IN  IF ~apiKey \/ o = "fail" \/ ~json.parses THEN NoGen
        ELSE IF json.hasItinerary /\ \E i \in 1..Len(json.itinerary) : ~json.itinerary[i].isObj
        THEN NoGen
        ELSE [itinerary |->
                IF json.hasItinerary
                THEN LET st == SortByDay(json.itinerary)
                     IN  [i \in 1..Len(st) |->
                            [day |-> st[i].day, activity |-> st[i].description,
                             poi_name |-> st[i].poi_name]]
                ELSE << >>,
              poi_descriptions |-> IF json.hasPd THEN json.poi_descriptions ELSE << >>]

(***************************************************************************)
(* Sources and reliability                                                 *)
(***************************************************************************)
\* a.includes(b)
Includes(a, b) ==
    \E i \in 1..(Len(a) + 1) :
        i + Len(b) - 1 <= Len(a) /\ SubSeq(a, i, i + Len(b) - 1) = b

\* poiDescriptions.set(d.name, d.description)
MapSet(m, d) ==
    IF \E i \in 1..Len(m) : m[i].hasKey = d.hasName /\ m[i].key = d.name
    THEN [i \in 1..Len(m) |->
            IF m[i].hasKey = d.hasName /\ m[i].key = d.name
            THEN [m[i] EXCEPT !.val = d.description] ELSE m[i]]
    ELSE Append(m, [hasKey |-> d.hasName, key |-> d.name, val |-> d.description])

RECURSIVE DescriptionMap(_)
DescriptionMap(pd) ==
    IF pd = << >> THEN << >>
    ELSE MapSet(DescriptionMap(SubSeq(pd, 1, Len(pd) - 1)), pd[Len(pd)])

Falsy(t) == t = NULL \/ t = ""

MapGet(m, k) ==
    IF \E i \in 1..Len(m) : m[i].hasKey /\ m[i].key = k
    THEN (CHOOSE e \in { m[i] : i \in 1..Len(m) } : e.hasKey /\ e.key = k).val
    ELSE NULL

\* the loop over poiDescriptions.entries(): key.includes throws on an undefined key
RECURSIVE FuzzyFind(_, _)
FuzzyFind(m, label) ==
    IF m = << >> THEN [throws |-> FALSE, desc |-> NULL]
    ELSE IF ~Head(m).hasKey THEN [throws |-> TRUE, desc |-> NULL]
    ELSE IF Includes(Head(m).key, label) \/ Includes(label, Head(m).key)
    THEN [throws |-> FALSE, desc |-> Head(m).val]
    ELSE FuzzyFind(Tail(m), label)

DescFor(m, label) ==
    IF ~Falsy(MapGet(m, label)) THEN [throws |-> FALSE, desc |-> MapGet(m, label)]
    ELSE FuzzyFind(m, label)

\* the sources of the POIs: those with a URL or a description
RECURSIVE PoiSources(_, _)
PoiSources(ps, m) ==
    IF ps = << >> THEN [throws |-> FALSE, sources |-> << >>]
    ELSE LET d == DescFor(m, Head(ps).label)
             rest == PoiSources(Tail(ps), m)
         IN  IF d.throws \/ rest.throws THEN [throws |-> TRUE, sources |-> << >>]
             ELSE [throws |-> FALSE,
                   sources |->
                     (IF ~Falsy(Head(ps).url) \/ ~Falsy(d.desc)
                      THEN << [url |-> Head(ps).url, title |-> Head(ps).label,
                               source |-> Head(ps).source, verified |-> ~Falsy(Head(ps).url),
                               description |-> d.desc, lat |-> Head(ps).lat] >>
                      ELSE << >>) \o rest.sources]

\* an origin entry that is verified whatever its URL
OriginSource_Verified ==
    [url |-> originGeo.url, title |-> originGeo.name, source |-> originGeo.source,
     verified |-> TRUE, description |-> "Departure", lat |-> originGeo.lat]

OriginSource ==
    [url |-> originGeo.url, title |-> originGeo.name, source |-> originGeo.source,
     verified |-> ~Falsy(originGeo.url), description |-> "Departure", lat |-> originGeo.lat]

\* a filter that keeps every source
uniqueSources_KeepAll(ss) == ss

\* a filter that drops the second occurrence of a (url, title) only
uniqueSources_DropSecond(ss) ==
    LET earlier(i) == { j \in 1..(i - 1) : ss[j].url = ss[i].url /\ ss[j].title = ss[i].title }
        F[i \in 0..Len(ss)] ==
            IF i = 0 THEN << >>
            ELSE IF Cardinality(earlier(i)) # 1 THEN Append(F[i - 1], ss[i]) ELSE F[i - 1]
    IN  F[Len(ss)]

\* sources.filter((s, index, self) => index === self.findIndex(t => same url and title))
uniqueSources(ss) ==
    LET keep == { i \in 1..Len(ss) :
                    \A j \in 1..(i - 1) : ~(ss[j].url = ss[i].url /\ ss[j].title = ss[i].title) }
        F[i \in 0..Len(ss)] ==
            IF i = 0 THEN << >> ELSE IF i \in keep THEN Append(F[i - 1], ss[i]) ELSE F[i - 1]
    IN  F[Len(ss)]

ProviderWeight(src) ==
    CASE src = "google-maps" -> 20 [] src = "opentripmap" -> 15 [] src = "ors" -> 12
      [] src = "wikidata" -> 10 [] src = "geonames" -> 6 [] OTHER -> 0

\* s.url && /^https:\/\//i.test(s.url); the URLs of the model are lower or upper case
IsHttps(url) ==
    url # NULL /\ Len(url) >= 8 /\ SubSeq(url, 1, 8) \in { "https://", "HTTPS://" }

RECURSIVE ScoreOf(_)
ScoreOf(ss) ==
    IF ss = << >> THEN 0
    ELSE ProviderWeight(Head(ss).source) + (IF Head(ss).verified THEN 8 ELSE 0)
         + (IF IsHttps(Head(ss).url) THEN 6 ELSE 0) + ScoreOf(Tail(ss))

\* the score without its cap
computeReliability_Uncapped(ss) == IF ss = << >> THEN 42 ELSE 40 + ScoreOf(ss)

computeReliability(ss) == IF ss = << >> THEN 42 ELSE Min(98, 40 + ScoreOf(ss))

(***************************************************************************)
(* Costs.  The amounts inside estimateCosts are doubles in EUR.  Each is   *)
(* kept twice: as the decimal amount it stands for, an integer number of   *)
(* 1/10000 EUR, and as the double itself.  A double is within 2^-30 of its *)
(* decimal, and every decimal here is a multiple of 1/20000 of a cent, so  *)
(* safe() of the double is the rounding of the decimal unless the decimal  *)
(* lies on a half cent; only then the double itself decides.  The amounts  *)
(* of the breakdown, all results of safe(), are cents.                     *)
(***************************************************************************)
CeilDiv(n, d) == (n + d - 1) \div d

\* the literals 0.30, 2, 0.2 and 0.05 of estimateCosts, and two of the RATES
CarRatePerKm == FDec(30, 100)

Two == FInt(2)

ActivityShare == FDec(2, 10)

ContingencyShare == FDec(5, 100)

BusCostPerKm == FDec(RATES.bus_cost_per_km_per_bus_x10, 10)

TeacherDiscount == FDec(RATES.teacher_discount_x10, 10)

\* safe(x) in cents, for the double x that stands for n / d cents
safeAt(n, d, x) == IF (2 * n) % (2 * d) = d THEN safeCents(x) ELSE RoundDiv(n, d)

\* params.teachers.split(',').filter(s => s.trim().length > 0).length
CountNonBlank(ts) == Len(FilterNonBlank(ts))

Buses(people) == Max(1, CeilDiv(people, RATES.bus_capacity))

\* transportCostTotal as a decimal, in 1/10000 EUR
TransportUnits(pref, people, distance_m, d) ==
    CASE pref = "plane" -> people * RATES.flight_per_person_avg * 10000
      [] pref = "train" -> people * RATES.train_per_person_avg * 10000
      [] pref = "ferry" -> people * 80 * 10000
      [] pref = "private_car" -> distance_m * 3 * 2
      [] OTHER -> Buses(people) * ((distance_m * 2) + (d * 50 * 1000))
                  * RATES.bus_cost_per_km_per_bus_x10

\* transportCostTotal, the double
TransportCost(pref, people, distance_km, d) ==
    CASE pref = "plane" -> FInt(people * RATES.flight_per_person_avg)
      [] pref = "train" -> FInt(people * RATES.train_per_person_avg)
      [] pref = "ferry" -> FInt(people * 80)
      [] pref = "private_car" -> FMul(FMul(distance_km, CarRatePerKm), Two)
      [] OTHER ->
            LET totalDist == FAdd(FMul(distance_km, Two), FInt(d * 50))
            IN  FMul(FMul(FInt(Buses(people)), totalDist), BusCostPerKm)

AccomRate(planTier) ==
    CASE planTier = "budget" -> RATES.accommodation_per_person_per_night_budget
      [] planTier = "premium" -> RATES.accommodation_per_person_per_night_premium
      [] OTHER -> RATES.accommodation_per_person_per_night_balanced

\* extras = safe(activityFees + localTransport + contingency), three amounts in
\* whole cents
Extras(activityFees, localTransport, contingency) ==
    activityFees + localTransport + contingency

\* estimateCosts(params, distance_m / 1000, d, planTier).breakdown, without its notes
estimateCosts(params, distance_m, d, planTier) ==
    LET students == params.num_students
        providedTeachers == CountNonBlank(params.teachers)
        requiredTeachers == Max(1, CeilDiv(students, 15))
        teachers == Max(providedTeachers, requiredTeachers)
        people == students + teachers
        accomRate == AccomRate(planTier)
        nights == Max(0, d - 1)
        \* the decimals, in 1/10000 EUR
        transportUnits == TransportUnits(params.transport_pref, people, distance_m, d)
        accomUnits == accomRate * people * nights * 10000
        mealsUnits == RATES.meals_per_person_per_day * people * d * 10000
        entryUnits == (RATES.entry_fee_per_student_avg * students * 10000)
                      + (RATES.entry_fee_per_student_avg * teachers
                         * RATES.teacher_discount_x10 * 1000)
        baseUnits == transportUnits + accomUnits + mealsUnits + entryUnits
        \* the doubles
        transportCostTotal ==
            TransportCost(params.transport_pref, people, FDivInt(FInt(distance_m), 1000), d)
        accomTotal == FInt(accomRate * people * nights)
        mealsTotal == FInt(RATES.meals_per_person_per_day * people * d)
        entryTotal == FAdd(FInt(RATES.entry_fee_per_student_avg * students),
                           FMul(FInt(RATES.entry_fee_per_student_avg * teachers),
                                TeacherDiscount))
        base == FAdd(FAdd(FAdd(transportCostTotal, accomTotal), mealsTotal), entryTotal)
        \* the results of safe(), in cents
        activityFees == safeAt(entryUnits, 500, FMul(entryTotal, ActivityShare))
        localTransport == d * people * 5 * 100
        contingency == safeAt(baseUnits, 2000, FMul(base, ContingencyShare))
        extras == Extras(activityFees, localTransport, contingency)
        total == safeAt(baseUnits + (extras * 100), 100, FAdd(base, FCents(extras)))
        perStudent == safeAt(total, Max(1, students),
                             FDivInt(FCents(total), Max(1, students)))
    IN  [ transport |-> safeAt(transportUnits, 100, transportCostTotal),
          accommodation |-> accomUnits \div 100,
          meals |-> mealsUnits \div 100,
          entry_fees |-> entryUnits \div 100,
          activity_fees |-> activityFees,
          local_transport |-> localTransport,
          contingency |-> contingency,
          total |-> total,
          per_student |-> perStudent,
          accom_rate_per_person |-> accomRate,
          nights |-> nights ]

(***************************************************************************)
(* The tiers                                                               *)
(***************************************************************************)
Capitalized(t) ==
    CASE t = "budget" -> "Budget" [] t = "balanced" -> "Balanced" [] OTHER -> "Premium"

\* stops.map(s => s.name).join(' -> ')
RECURSIVE JoinNames(_)
JoinNames(stops) ==
    IF stops = << >> THEN ""
    ELSE IF Len(stops) = 1 THEN stops[1].name
    ELSE stops[1].name \o " -> " \o JoinNames(Tail(stops))

Lats(geos) == [i \in 1..Len(geos) |-> geos[i].lat]

\* the points of the route of the current tier
TierPoints ==
    IF complexRouteCandidate THEN << originGeo.lat >> \o Lats(resolvedStops)
    ELSE << originGeo.lat, chosen[tierIdx].lat >>

TierDestination ==
    IF complexRouteCandidate THEN JoinNames(resolvedStops) ELSE chosen[tierIdx].city

\* the POIs the sources of the current tier are built from
SourcePois(pois) == IF complexRouteCandidate THEN FirstN(pois, 15) ELSE pois

FallbackEntry ==
    [day |-> 1,
     activity |-> IF complexRouteCandidate THEN "Itinerary generation failed."
                  ELSE "Fallback itinerary.",
     poi_name |-> NULL]

\* the TripPlan of the current tier
PlanOf(ri, sources, gen) ==
    LET unique == uniqueSources(Append(sources, OriginSource))
    IN  [tier |-> tiers[tierIdx],
         title |-> TierDestination \o " - " \o Capitalized(tiers[tierIdx]),
         reliability |-> computeReliability(unique),
         destination |-> TierDestination,
         number_of_days |-> days,
         itinerary |-> IF gen.itinerary # << >> THEN gen.itinerary ELSE << FallbackEntry >>,
         cost_breakdown |-> estimateCosts(form, ri.distance_m, Max(1, days), tiers[tierIdx]),
         distance_km |-> safe(ri.distance_m, 1000),
         travel_time_h |-> safe(ri.duration_s, 3600),
         sources |-> FirstN(unique, IF complexRouteCandidate THEN 8 ELSE 6),
         polyline |-> ri.polyline]

\* a tier that moves on to the next one without pushing its plan
FinishTier_NoPush(ri, pois, gen) ==
    /\ routeInfo' = NoRoute
    /\ allPois' = << >>
    /\ pending' = << >>
    /\ UNCHANGED << plansOut, error >>
    /\ IF tierIdx < 3
       THEN tierIdx' = tierIdx + 1 /\ pc' = "TierRoute"
       ELSE tierIdx' = tierIdx /\ pc' = "Assembled"

\* the rest of a tier once the itinerary call is back: the description map, the
\* sources, plansOut.push, then the next tier or the return
FinishTier(ri, pois, gen) ==
    LET badEntry == \E i \in 1..Len(gen.poi_descriptions) : ~gen.poi_descriptions[i].isObj
        src == IF badEntry THEN [throws |-> TRUE, sources |-> << >>]
               ELSE PoiSources(SourcePois(pois), DescriptionMap(gen.poi_descriptions))
    IN  /\ routeInfo' = NoRoute
        /\ allPois' = << >>
        /\ pending' = << >>
        /\ IF src.throws
           THEN /\ Throw("TypeError")
                /\ UNCHANGED << plansOut, tierIdx >>
           ELSE /\ plansOut' = Append(plansOut, PlanOf(ri, src.sources, gen))
                /\ error' = error
                /\ IF tierIdx < 3
                   THEN tierIdx' = tierIdx + 1 /\ pc' = "TierRoute"
                   ELSE tierIdx' = tierIdx /\ pc' = "Assembled"

\* a tier from its start to the first await after the route: orsRouteDistance,
\* the fallback, the feasibility check (multi-stop mode) and, with
\* forceTemplates, the whole rest of the tier
TierRoute ==
    /\ pc = "TierRoute"
    /\ \E o \in Outcomes : \E resp \in RouteResponses(TierPoints) :
        LET ri == RouteOf(TierPoints, o, resp)
            \* an answer without geometry is one of the calls that go wrong
            partial == o = "ok" /\ resp # RoadRoute(TierPoints)
        IN  /\ Allowed(o, 0)
            /\ o # "ok" => resp = RoadRoute(TierPoints)
            /\ partial => faults < MaxFaults
            /\ calls' = Append(calls, Call("orsRoute", TierDestination, o = "ok"))
            /\ faults' = faults + (IF partial THEN 1 ELSE FaultOf(o))
            /\ IF complexRouteCandidate /\ Infeasible(ri, days)
               THEN /\ Throw("infeasible")
                    /\ UNCHANGED << routeInfo, allPois, pending, plansOut, tierIdx >>
               ELSE IF ~UseProviders
               THEN FinishTier(ri, IF complexRouteCandidate THEN << >> ELSE chosen[tierIdx].pois,
                               NoGen)
               ELSE /\ routeInfo' = ri
                    /\ allPois' = IF complexRouteCandidate THEN << >> ELSE chosen[tierIdx].pois
                    /\ pending' = IF complexRouteCandidate THEN resolvedStops ELSE << >>
                    /\ pc' = IF complexRouteCandidate THEN "TierOtm" ELSE "TierItinerary"
                    /\ UNCHANGED << plansOut, tierIdx, error >>
    /\ UNCHANGED << arg, out, form, forceTemplates, apiKey, net, days, originGeo, resolvedStops,
                    complexRouteCandidate, candidates, enriched, chosen, curGeo >>

\* multi-stop mode: fetchOpenTripMapPOIs for the next stop
TierOtm ==
    /\ pc = "TierOtm"
    /\ pending # << >>
    /\ \E o \in Outcomes : \E resp \in OtmResponses(Head(pending).lat) :
        LET otmPois == fetchOpenTripMapPOIs(Head(pending).lat, o, resp)
        IN  /\ Allowed(o, 0)
            /\ calls' = Append(calls, Call("opentripmap", Head(pending).name, otmPois # << >>))
            /\ faults' = faults + FaultOf(o)
            /\ allPois' = allPois \o otmPois
            /\ IF Few(otmPois, 2)
               THEN pc' = "TierWiki" /\ pending' = pending
               ELSE /\ pending' = Tail(pending)
                    /\ pc' = IF Tail(pending) = << >> THEN "TierItinerary" ELSE "TierOtm"
    /\ UNCHANGED << arg, out, form, forceTemplates, apiKey, net, days, originGeo, resolvedStops,
                    complexRouteCandidate, candidates, enriched, chosen, tierIdx, routeInfo,
                    curGeo, plansOut, error >>

\* multi-stop mode: wikidataPOIs for a stop OpenTripMap knows little about
TierWiki ==
    /\ pc = "TierWiki"
    /\ \E o \in Outcomes : \E resp \in WikiResponses :
        /\ Allowed(o, 0)
        /\ calls' = Append(calls, Call("wikidata", Head(pending).name, o = "ok"))
        /\ faults' = faults + FaultOf(o)
        /\ allPois' = allPois \o wikidataPOIs(Head(pending).lat, o, resp)
        /\ pending' = Tail(pending)
        /\ pc' = IF Tail(pending) = << >> THEN "TierItinerary" ELSE "TierOtm"
    /\ UNCHANGED << arg, out, form, forceTemplates, apiKey, net, days, originGeo, resolvedStops,
                    complexRouteCandidate, candidates, enriched, chosen, tierIdx, routeInfo,
                    curGeo, plansOut, error >>

\* generateGeminiItinerary and the rest of the tier
TierItinerary ==
    /\ pc = "TierItinerary"
    /\ \E o \in Outcomes : \E resp \in AiResponses(days) :
        /\ IF apiKey THEN Allowed(o, 0) ELSE o = "fail"
        /\ (~apiKey \/ o # "ok") => resp.poi_descriptions[1].hasName
        /\ calls' = IF apiKey THEN Append(calls, Call("geminiItinerary", TierDestination, o = "ok"))
                    ELSE calls
        /\ faults' = IF apiKey THEN faults + FaultOf(o) ELSE faults
        /\ FinishTier(routeInfo, allPois, generateGeminiItinerary(o, resp))
    /\ UNCHANGED << arg, out, form, forceTemplates, apiKey, net, days, originGeo, resolvedStops,
                    complexRouteCandidate, candidates, enriched, chosen, curGeo >>

Next ==
    \/ Validate
    \/ ResolveOrigin
    \/ ResolveDestination
    \/ SuggestDestinations
    \/ ResolveSuggestion
    \/ EnrichCandidate
    \/ EnrichOtm
    \/ EnrichWiki
    \/ TierRoute
    \/ TierOtm
    \/ TierWiki
    \/ TierItinerary

Spec == Init /\ [][Next]_vars

(***************************************************************************)
(* The functions of the pipeline applied on their own: the initial state   *)
(* holds the arguments, an action applies the function to them.            *)
(***************************************************************************)
\* head-counts, teachers fields, transport modes, distances and day counts
CostStudents == { 1, 14, 16 }

CostTeachers == { << >>, << "Anes Memic", " " >>, << "Anes Memic", "Victoria Bartz" >> }

CostPrefs == { "bus", "plane", "train", "ferry", "private_car", "" }

CostDistances == { 0, 12025, 57000, 348000 }

CostArgs ==
    [ fn : { "estimateCosts" },
      params : [ num_students : CostStudents, teachers : CostTeachers,
                 transport_pref : CostPrefs ],
      distance_m : CostDistances,
      days : 1..(MaxDay + 1) ]

SeqsUpTo(S, n) == UNION { [1..k -> S] : k \in 0..n }

MaxSources == 2

\* sources as computeReliability reads them: provider, verified flag and URL
ScoredSources ==
    [ source : { "google-maps", "opentripmap", "ors", "wikidata", "geonames", "idss" },
      verified : BOOLEAN,
      url : { NULL, "https://www.geonames.org/Tuzla", "http://example.org/poi" } ]

ReliabilityArgs == [ fn : { "computeReliability" }, sources : SeqsUpTo(ScoredSources, MaxSources) ]

MaxMerged == 3

\* sources as the merge reads them: URL and title, and a description besides
MergedSources ==
    [ url : { NULL, "https://www.geonames.org/Tuzla" },
      title : { "Tuzla, Region", "City Museum" },
      description : { "", "Departure" } ]

UniqueArgs == [ fn : { "uniqueSources" }, sources : SeqsUpTo(MergedSources, MaxMerged) ]

\* days before and after the two changes of the clock of 2025, and a leap day
CalendarTexts ==
    { [fmt |-> "dmy", d |-> d, m |-> 3, y |-> 2025] : d \in 29..31 }
    \cup { [fmt |-> "dmy", d |-> d, m |-> 10, y |-> 2025] : d \in 25..27 }
    \cup { [fmt |-> "dmy", d |-> 28, m |-> 2, y |-> 24], [fmt |-> "dmy", d |-> 1, m |-> 3, y |-> 2024] }
    \cup (DateTexts \ { JunkDate })

DaysArgs == [ fn : { "daysInclusive" }, dep_date : CalendarTexts, ret_date : CalendarTexts ]

\* texts of both accepted shapes around the ends of the months and of the year
NormalizeTexts ==
    [ fmt : { "iso", "dmy" }, d : { 0, 1, 28, 29, 30, 31, 32 }, m : { 0, 2, 4, 12, 13 },
      y : { 2024, 2025 } ]

NormalizeArgs == [ fn : { "normalizeDate" }, text : NormalizeTexts ]

FnArgs == CostArgs \cup ReliabilityArgs \cup UniqueArgs \cup DaysArgs \cup NormalizeArgs

\* no invocation of buildThreePlans is under way
NoInvocation ==
    /\ form = [ origin |-> "", destinations |-> << "" >>, trip_type |-> "Multi-day excursion",
                dep_date |-> [fmt |-> "dmy", d |-> 21, m |-> 9, y |-> 2025],
                ret_date |-> [fmt |-> "dmy", d |-> 25, m |-> 9, y |-> 2025],
                num_students |-> 14, teachers |-> << "Anes Memic", "Victoria Bartz" >>,
                transport_pref |-> "bus" ]
    /\ forceTemplates = FALSE
    /\ apiKey = FALSE
    /\ net = "up"
    /\ faults = 0
    /\ pc = "Idle"
    /\ days = 0
    /\ originGeo = NoGeo
    /\ resolvedStops = << >>
    /\ complexRouteCandidate = FALSE
    /\ candidates = << >>
    /\ pending = << >>
    /\ enriched = << >>
    /\ chosen = << >>
    /\ tierIdx = 0
    /\ routeInfo = NoRoute
    /\ allPois = << >>
    /\ curGeo = NoGeo
    /\ plansOut = << >>
    /\ calls = << >>
    /\ error = "none"

FnInit ==
    /\ NoInvocation
    /\ arg \in FnArgs
    /\ out = NoOut

pipelineVars ==
    << form, forceTemplates, apiKey, net, faults, pc, days, originGeo, resolvedStops,
       complexRouteCandidate, candidates, pending, enriched, chosen, tierIdx, routeInfo,
       allPois, curGeo, plansOut, calls, error >>

\* estimateCosts applied to the arguments, once for each tier
CallEstimateCosts ==
    /\ arg.fn = "estimateCosts"
    /\ out = NoOut
    /\ out' = [ fn |-> "estimateCosts",
                by |-> [ t \in { "budget", "balanced", "premium" } |->
                            estimateCosts(arg.params, arg.distance_m, arg.days, t) ] ]
    /\ UNCHANGED << arg, pipelineVars >>

CallComputeReliability ==
    /\ arg.fn = "computeReliability"
    /\ out = NoOut
    /\ out' = [ fn |-> "computeReliability", value |-> computeReliability(arg.sources) ]
    /\ UNCHANGED << arg, pipelineVars >>

\* the filter applied to the list, and applied again to its own output
CallUniqueSources ==
    /\ arg.fn = "uniqueSources"
    /\ out = NoOut
    /\ out' = [ fn |-> "uniqueSources",
                once |-> uniqueSources(arg.sources),
                twice |-> uniqueSources(uniqueSources(arg.sources)) ]
    /\ UNCHANGED << arg, pipelineVars >>

\* daysInclusive applied to the dates the two texts parse to
CallDaysInclusive ==
    /\ arg.fn = "daysInclusive"
    /\ out = NoOut
    /\ out' = [ fn |-> "daysInclusive",
                value |-> daysInclusive(parseDateNormalized(arg.dep_date),
                                        parseDateNormalized(arg.ret_date)) ]
    /\ UNCHANGED << arg, pipelineVars >>

\* normalizeDate applied to the text, and the Date parseDateNormalized makes of it
CallNormalizeDate ==
    /\ arg.fn = "normalizeDate"
    /\ out = NoOut
    /\ out' = [ fn |-> "normalizeDate",
                normalized |-> normalizeDate(arg.text),
                date |-> parseDateNormalized(arg.text) ]
    /\ UNCHANGED << arg, pipelineVars >>

FnNext ==
    \/ CallEstimateCosts
    \/ CallComputeReliability
    \/ CallUniqueSources
    \/ CallDaysInclusive
    \/ CallNormalizeDate

FnSpec == FnInit /\ [][FnNext]_vars

(***************************************************************************)
(* Properties                                                              *)
(***************************************************************************)
Terminated == pc \in { "Assembled", "Failed" }

\* the destination loop (or the suggestion of destinations) is over
PastResolution ==
    pc \notin { "Validating", "ResolvingOrigin", "ResolvingDestinations", "Suggesting",
                "ResolvingSuggestions" }

CallsAt(stage) == SelectSeq(calls, LAMBDA c : c.at = stage)

RECURSIVE ArrowJoin(_)
ArrowJoin(names) ==
    IF names = << >> THEN ""
    ELSE IF Len(names) = 1 THEN names[1]
    ELSE names[1] \o " -> " \o ArrowJoin(Tail(names))

CuratedCityNames ==
    UNION { { SUGGESTED_CITIES[g].cities[i] : i \in 1..Len(SUGGESTED_CITIES[g].cities) } :
            g \in 1..Len(SUGGESTED_CITIES) }

\* C1: an invocation that ends does so with an input error, with the
\* infeasibility error, or by returning a result of exactly 3 plans, whatever
\* the providers answered
C1_AlwaysThreePlans ==
    (Terminated /\ error \notin { "input", "infeasible" })
        => (pc = "Assembled" /\ Len(plansOut) = 3)

\* C2: every plan of a returned result, in either mode, has twice its travel
\* time within 9 hours per day of the trip (travel_time_h is in hundredths)
C2_ReturnedPlansFeasible ==
    pc = "Assembled" =>
        \A i \in 1..Len(plansOut) :
            2 * plansOut[i].travel_time_h <= 9 * 100 * plansOut[i].number_of_days

\* the request has unparseable dates, inverted dates, or a trip type that does
\* not match its number of days
MismatchedRequest ==
    LET dep == parseDateNormalized(form.dep_date)
        ret == parseDateNormalized(form.ret_date)
    IN  \/ dep < 0
        \/ ret < 0
        \/ dep > ret
        \/ form.trip_type = "Multi-day excursion" /\ ret - dep + 1 < 2
        \/ form.trip_type = "One-day excursion" /\ ret - dep + 1 > 1

\* C3: a request with an unparseable date, a departure after the return, or a
\* trip type that mismatches the day count fails with an input error at
\* validation and yields no plan
C3_InputErrors ==
    (pc # "Validating" /\ MismatchedRequest)
        => (pc = "Failed" /\ error = "input" /\ plansOut = << >>)

\* C4: the only errors an invocation raises are the input errors and the
\* infeasibility error, whatever an AI or other provider answers
C4_OnlyInputOrInfeasible == error \in { "none", "input", "infeasible" }

\* C5: with forceTemplates no AI capability and no POI provider is ever called
C5_ForcedCallsNoAiNoPoi ==
    forceTemplates =>
        \A i \in 1..Len(calls) :
            calls[i].api \notin { "geminiSuggest", "geminiItinerary", "opentripmap",
                                  "wikidata" }

\* a forced invocation returned its plans in suggested-destination mode while a
\* key and the network were available
C5_Witness ==
    /\ forceTemplates /\ apiKey /\ net = "up"
    /\ pc = "Assembled" /\ ~complexRouteCandidate /\ Len(plansOut) = 3
    /\ \E i \in 1..Len(calls) : calls[i].api = "orsRoute"

\* C6: in multi-stop mode the plans share one route: equal distance, travel
\* time and path
C6_SharedRoute ==
    complexRouteCandidate =>
        \A i, j \in 1..Len(plansOut) :
            /\ plansOut[i].distance_km = plansOut[j].distance_km
            /\ plansOut[i].travel_time_h = plansOut[j].travel_time_h
            /\ plansOut[i].polyline = plansOut[j].polyline

\* C7: once the destination texts are resolved and one of them resolved, every
\* text was looked up exactly once in input order (GeoNames, then ORS only
\* after a GeoNames miss), the stops are the results of the successful
\* lookups in that order, and every plan carries their names joined by ' -> '
C7_StopsInInputOrder ==
    LET dc == CallsAt("ResolvingDestinations")
        gn == SelectSeq(dc, LAMBDA c : c.api = "geonames")
        ors == SelectSeq(dc, LAMBDA c : c.api = "orsGeocode")
        miss == SelectSeq(gn, LAMBDA c : ~c.hit)
        hits == SelectSeq(dc, LAMBDA c : c.hit)
        names == [i \in 1..Len(hits) |->
                    IF hits[i].api = "geonames" THEN geocodeGeoNames(hits[i].q, "ok").name
                    ELSE geocodeORS(hits[i].q, "ok").name]
    IN  (PastResolution /\ validDestinations # << >> /\ hits # << >>) =>
            /\ complexRouteCandidate
            /\ [i \in 1..Len(gn) |-> gn[i].q] = validDestinations
            /\ [i \in 1..Len(ors) |-> ors[i].q] = [i \in 1..Len(miss) |-> miss[i].q]
            /\ [i \in 1..Len(resolvedStops) |-> resolvedStops[i].name] = names
            /\ \A i \in 1..Len(plansOut) : plansOut[i].destination = ArrowJoin(names)

\* two texts were given, the first was dropped, and the three plans were returned
C7_Witness ==
    /\ pc = "Assembled" /\ Len(plansOut) = 3
    /\ Len(validDestinations) = 2 /\ Len(resolvedStops) = 1
    /\ ~CallsAt("ResolvingDestinations")[1].hit
    /\ resolvedStops[1].name = geocodeGeoNames(validDestinations[2], "ok").name

\* no destination was resolved: no lookup of a destination text or of a
\* suggestion gave a result
NothingResolved ==
    \A i \in 1..Len(calls) :
        calls[i].at \in { "ResolvingDestinations", "ResolvingSuggestions" } => ~calls[i].hit

\* C8: whenever no destination was resolved, the candidates of the three plans
\* are the curated list
C8_CuratedWhenUnresolved ==
    (PastResolution /\ pc # "Failed" /\ NothingResolved) => candidates = CuratedCandidates

\* C9: with no destination text and no provider giving anything, the three
\* returned plans have pairwise distinct destinations, all curated city names
C9_DistinctCuratedDestinations ==
    (pc = "Assembled" /\ validDestinations = << >> /\ \A i \in 1..Len(calls) : ~calls[i].hit)
        => /\ Len(plansOut) = 3
           /\ \A i, j \in 1..Len(plansOut) :
                i # j => plansOut[i].destination # plansOut[j].destination
           /\ \A i \in 1..Len(plansOut) : plansOut[i].destination \in CuratedCityNames

\* C10: in suggested-destination mode with n > 0 enriched candidates the three
\* slots are the first, the middle (index floor(n/2)) and the last enriched
\* candidate when n >= 3, and the n candidates followed by enriched candidates
\* when n < 3; plan i goes to the city of slot i
C10_ChosenFromEnriched ==
    LET n == Len(enriched)
    IN  (~complexRouteCandidate /\ chosen # << >> /\ n > 0) =>
            /\ Len(chosen) = 3
            /\ n >= 3 => chosen = << enriched[1], enriched[(n \div 2) + 1], enriched[n] >>
            /\ n < 3 =>
                /\ \A i \in 1..n : chosen[i] = enriched[i]
                /\ \A i \in (n + 1)..3 : \E k \in 1..n : chosen[i] = enriched[k]
            /\ \A i \in 1..Len(plansOut) :
                /\ plansOut[i].destination = chosen[i].city
                /\ plansOut[i].tier = tiers[i]

\* two candidates were enriched and the three plans were returned
C10_Witness ==
    /\ pc = "Assembled" /\ ~complexRouteCandidate /\ Len(plansOut) = 3
    /\ Len(enriched) = 2
    /\ enriched[1].city # enriched[2].city

\* C11: every plan of a returned result has an itinerary of exactly
\* number_of_days entries whose day numbers are 1, 2, ..., days in order
C11_ItineraryCoversDays ==
    pc = "Assembled" =>
        \A i \in 1..Len(plansOut) :
            /\ Len(plansOut[i].itinerary) = plansOut[i].number_of_days
            /\ \A k \in 1..Len(plansOut[i].itinerary) : plansOut[i].itinerary[k].day = k

\* the sum of the seven reported line items of a breakdown, in cents
LineItems(b) ==
    b.transport + b.accommodation + b.meals + b.entry_fees + b.activity_fees
    + b.local_transport + b.contingency

\* C12: for every output of estimateCosts, total is the sum of the seven reported
\* line items, each at its reported rounded value (amounts are in whole cents,
\* so the sum is its own 2-decimal rounding)
C12_TotalIsSumOfLineItems ==
    out.fn = "estimateCosts" =>
        \A t \in DOMAIN out.by : out.by[t].total = LineItems(out.by[t])

\* C13: for fixed arguments the outputs of estimateCosts for the three tiers
\* agree on transport, meals, entry_fees, activity_fees, local_transport and
\* contingency
C13_TierIndependentItems ==
    out.fn = "estimateCosts" =>
        \A t, u \in DOMAIN out.by :
            /\ out.by[t].transport = out.by[u].transport
            /\ out.by[t].meals = out.by[u].meals
            /\ out.by[t].entry_fees = out.by[u].entry_fees
            /\ out.by[t].activity_fees = out.by[u].activity_fees
            /\ out.by[t].local_transport = out.by[u].local_transport
            /\ out.by[t].contingency = out.by[u].contingency

\* C14: in multi-stop mode, for a trip of at least 2 days, the totals of the
\* cost breakdowns of the three returned plans increase strictly from the
\* budget plan to the balanced plan to the premium plan
C14_TotalsIncreaseWithTier ==
    (pc = "Assembled" /\ complexRouteCandidate /\ days >= 2) =>
        /\ Len(plansOut) = 3
        /\ plansOut[1].cost_breakdown.total < plansOut[2].cost_breakdown.total
        /\ plansOut[2].cost_breakdown.total < plansOut[3].cost_breakdown.total

\* the score the sources add up to: the provider's weight, 8 when verified and
\* 6 for an https URL, for each source
AddedScore(ss) ==
    LET weight == [ p \in { "google-maps", "opentripmap", "ors", "wikidata", "geonames" } |->
                      CASE p = "google-maps" -> 20 [] p = "opentripmap" -> 15
                        [] p = "ors" -> 12 [] p = "wikidata" -> 10 [] OTHER -> 6 ]
        one(s) == (IF s.source \in DOMAIN weight THEN weight[s.source] ELSE 0)
                  + (IF s.verified THEN 8 ELSE 0)
                  + (IF s.url # NULL /\ Len(s.url) >= 8 /\ SubSeq(s.url, 1, 8) = "https://"
                     THEN 6 ELSE 0)
        sum[i \in 0..Len(ss)] == IF i = 0 THEN 0 ELSE sum[i - 1] + one(ss[i])
    IN  sum[Len(ss)]

\* C15: computeReliability returns 42 for an empty list and, for a non-empty
\* list, 40 plus the added score of its sources, capped at 98: an integer in
\* 40..98
C15_ReliabilityScore ==
    out.fn = "computeReliability" =>
        IF arg.sources = << >> THEN out.value = 42
        ELSE /\ out.value \in 40..98
             /\ out.value = IF 40 + AddedScore(arg.sources) > 98 THEN 98
                            ELSE 40 + AddedScore(arg.sources)

\* two sources whose added score passes the cap
C15_Witness ==
    /\ out.fn = "computeReliability"
    /\ Len(arg.sources) = 2
    /\ 40 + AddedScore(arg.sources) > 98
    /\ out.value = 98

\* C16: wherever a place name is resolved, OpenRouteService is asked only
\* right after GeoNames gave nothing for the same query text, and a failing
\* provider raises no error
C16_GeoNamesThenOrsSameQuery ==
    /\ error \in { "none", "input", "infeasible" }
    /\ \A i \in 1..Len(calls) :
        calls[i].api = "orsGeocode" =>
            /\ i > 1
            /\ calls[i - 1].api = "geonames"
            /\ calls[i - 1].at = calls[i].at
            /\ ~calls[i - 1].hit
            /\ calls[i - 1].q = calls[i].q

\* the orsRoute call of the current tier
TierRouteCall ==
    LET idx == { i \in 1..Len(calls) : calls[i].api = "orsRoute" /\ calls[i].tier = tierIdx }
    IN  calls[CHOOSE i \in idx : \A j \in idx : j <= i]

\* C17: the route a tier holds is the provider's distance, duration and geometry
\* when the provider gave a distance, and otherwise the sum of the haversine
\* distances between consecutive points, that distance at 50 km/h, and the
\* points themselves in order; every returned plan has a path of at least 2
\* points
C17_CompleteRoute ==
    /\ pc \in { "TierOtm", "TierWiki", "TierItinerary" } =>
        LET meters == PathMeters(TierPoints)
            estimate == [distance_m |-> meters, duration_s |-> (meters * 3600) \div 50000,
                         polyline |-> TierPoints]
        IN  /\ routeInfo = estimate
               \/ (TierRouteCall.hit /\ routeInfo.distance_m > 0
                   /\ routeInfo \in RouteResponses(TierPoints))
            /\ ~TierRouteCall.hit => routeInfo = estimate
    /\ pc = "Assembled" =>
        \A i \in 1..Len(plansOut) :
            /\ plansOut[i].distance_km \in Nat
            /\ plansOut[i].travel_time_h \in Nat
            /\ Len(plansOut[i].polyline) >= 2

\* C18: the merge of the sources applied to its own output returns that output
C18_DedupIdempotent ==
    out.fn = "uniqueSources" => out.twice = out.once

\* a list in which the same (url, title) occurs three times, with another
\* source, was merged
C18_Witness ==
    /\ out.fn = "uniqueSources"
    /\ Len(arg.sources) = 3
    /\ \A i \in 1..3 : arg.sources[i].url = arg.sources[1].url
                       /\ arg.sources[i].title = arg.sources[1].title
    /\ arg.sources[1] # arg.sources[2]
    /\ out.once = << arg.sources[1] >>

\* C20: for valid dates with the departure not after the return, daysInclusive
\* is the difference of the two instants in days, rounded to the nearest
\* integer, plus 1; it is at least 1, and 1 exactly when both are the same day
C20_DaysInclusive ==
    LET dep == parseDateNormalized(arg.dep_date)
        ret == parseDateNormalized(arg.ret_date)
        hours == getTime(ret) - getTime(dep)
        n == out.value - 1
    IN  (out.fn = "daysInclusive" /\ dep >= 0 /\ ret >= 0 /\ dep <= ret) =>
            /\ (24 * n) - 12 <= hours /\ hours < (24 * n) + 12
            /\ out.value >= 1
            /\ out.value = 1 <=> normalizeDate(arg.dep_date) = normalizeDate(arg.ret_date)

\* the days between the eve of the change to summer time and the day after: the
\* first of the two nights has 23 hours
C20_Witness ==
    /\ out.fn = "daysInclusive"
    /\ arg.dep_date = [fmt |-> "dmy", d |-> 29, m |-> 3, y |-> 2025]
    /\ arg.ret_date = [fmt |-> "dmy", d |-> 31, m |-> 3, y |-> 2025]
    /\ getTime(parseDateNormalized(arg.ret_date)) - getTime(parseDateNormalized(arg.dep_date)) = 47
    /\ out.value = 3

\* the place of a pipeline state in the order of the pipeline
StageRank(stage) ==
    CASE stage = "Validating" -> 0
      [] stage = "ResolvingOrigin" -> 1
      [] stage \in { "ResolvingDestinations", "Suggesting", "ResolvingSuggestions" } -> 2
      [] stage \in { "Enriching", "EnrichOtm", "EnrichWiki" } -> 3
      [] stage \in { "TierRoute", "TierOtm", "TierWiki", "TierItinerary" } -> 4
      [] OTHER -> 5

C22_TierStepsInOrder ==
    /\ \A i \in 1..Len(calls) :
        calls[i].api \in { "opentripmap", "wikidata", "geminiItinerary" } =>
            /\ calls[i].tier \in 1..3
            /\ \E j \in 1..(i - 1) : calls[j].api = "orsRoute" /\ calls[j].tier = calls[i].tier
            /\ Len(plansOut) >= calls[i].tier - 1
    /\ pc \in { "TierOtm", "TierWiki", "TierItinerary" } => ~Infeasible(routeInfo, days)

\* pois.slice(0, 10): the most POIs kept for a city
PoiCap == 10

\* C23: once the list collected for a location holds PoiCap POIs no further
\* POI provider is queried for that location: Wikidata is asked about a
\* location only right after OpenTripMap was asked about it and left fewer
\* than PoiCap POIs collected for it
C23_NoQueryPastCap ==
    [][ /\ pc' = "EnrichWiki" => Len(allPois') < PoiCap
        /\ pc' = "TierWiki" => Len(allPois') - Len(allPois) < PoiCap
        /\ (Len(calls') > Len(calls) /\ calls'[Len(calls')].api = "wikidata") =>
            /\ pc \in { "EnrichWiki", "TierWiki" }
            /\ calls # << >>
            /\ calls[Len(calls)].api = "opentripmap"
            /\ calls[Len(calls)].q = calls'[Len(calls')].q ]_vars

\* OpenTripMap gave more than PoiCap POIs for a candidate, which was enriched
\* with PoiCap of them without a call to Wikidata
C23_Witness ==
    /\ ~complexRouteCandidate
    /\ \E i \in 1..Len(enriched) : Len(enriched[i].pois) = PoiCap
    /\ \E i \in 1..Len(calls) : calls[i].api = "opentripmap" /\ calls[i].at = "EnrichOtm"
    /\ \A i \in 1..Len(calls) : calls[i].api # "wikidata"
    /\ pc = "Assembled"

DistinctLabels(ps) == \A i, j \in 1..Len(ps) : ps[i].label = ps[j].label => i = j

\* C24: the POI list collected for a plan, in multi-stop mode as in
\* suggested-destination mode, never holds two entries with the same label
C24_NoDuplicateLabels ==
    /\ DistinctLabels(allPois)
    /\ \A i \in 1..Len(enriched) : DistinctLabels(enriched[i].pois)

\* C25: the reliability of every returned plan is the score of the sources the
\* plan carries: 42 for none, otherwise 40 plus their added score, capped at 98
C25_ReliabilityOfFinalSources ==
    pc = "Assembled" =>
        \A i \in 1..Len(plansOut) :
            LET score == 40 + AddedScore(plansOut[i].sources)
            IN  plansOut[i].reliability =
                    IF plansOut[i].sources = << >> THEN 42
                    ELSE IF score > 98 THEN 98 ELSE score

\* a suggested-mode plan whose candidate has PoiCap POIs, so that its sources
\* were cut to the first 6, and a plan whose score is below the cap
C25_Witness ==
    /\ pc = "Assembled" /\ ~complexRouteCandidate
    /\ \E i \in 1..Len(plansOut) :
        /\ Len(chosen[i].pois) = PoiCap
        /\ Len(plansOut[i].sources) = 6
    /\ \E i \in 1..Len(plansOut) : plansOut[i].reliability \in 43..97

C27_VerifiedIffUrl ==
    pc = "Assembled" =>
        \A i \in 1..Len(plansOut) :
            \A k \in 1..Len(plansOut[i].sources) :
                plansOut[i].sources[k].verified <=> plansOut[i].sources[k].url # NULL

\* a returned plan with a POI source that has a URL and, for the default
\* origin, an origin entry that has none
C27_Witness ==
    /\ pc = "Assembled"
    /\ originGeo.source = "default"
    /\ \E i \in 1..Len(plansOut) :
        LET ss == plansOut[i].sources
        IN  /\ Len(ss) >= 2
            /\ ss[1].verified /\ ss[1].source = "opentripmap"
            /\ ~ss[Len(ss)].verified /\ ss[Len(ss)].description = "Departure"

\* C28: once the origin is resolved it is not null: for a blank origin text no
\* geocoder is called and the origin is the default (the coordinates of IDSS,
\* source 'default', no URL); otherwise GeoNames is asked, then ORS if GeoNames
\* gave nothing, and the origin is the first result, or the default when
\* neither gave one
C28_OriginNeverNull ==
    LET oc == CallsAt("ResolvingOrigin")
        fixed == [lat |-> IDSS_COORDS.lat, lng |-> IDSS_COORDS.lng, name |-> "IDSS Sarajevo",
                  source |-> "default", url |-> NULL]
    IN  (pc \notin { "Validating", "ResolvingOrigin" } /\ error # "input") =>
            /\ originGeo # NoGeo
            /\ IF ~NonBlank(form.origin) THEN oc = << >> /\ originGeo = fixed
               ELSE /\ Len(oc) \in 1..2
                    /\ oc[1].api = "geonames" /\ oc[1].q = form.origin
                    /\ oc[1].hit <=> Len(oc) = 1
                    /\ oc[1].hit => originGeo = geocodeGeoNames(form.origin, "ok")
                    /\ Len(oc) = 2 =>
                        /\ oc[2].api = "orsGeocode" /\ oc[2].q = form.origin
                        /\ originGeo = IF oc[2].hit THEN geocodeORS(form.origin, "ok") ELSE fixed

\* the result was returned for an origin text that neither geocoder resolved
C28_Witness ==
    /\ pc = "Assembled"
    /\ NonBlank(form.origin)
    /\ Len(CallsAt("ResolvingOrigin")) = 2
    /\ ~CallsAt("ResolvingOrigin")[2].hit
    /\ originGeo.source = "default"

\* the text names a day of the calendar: a month of the year and a day of that month
OnCalendar(text) ==
    /\ text.m \in 1..12
    /\ text.d >= 1
    /\ text.d <= (IF text.m = 2 THEN (IF IsLeap(text.y) THEN 29 ELSE 28)
                  ELSE IF text.m \in { 4, 6, 9, 11 } THEN 30 ELSE 31)

\* C29: normalizeDate returns null for every text, in either accepted shape,
\* whose month is outside 1..12 or whose day is outside the days of its month,
\* so that no date that is not on the calendar is parsed
C29_RejectsNonexistentDates ==
    (out.fn = "normalizeDate" /\ ~OnCalendar(arg.text)) =>
        ~out.normalized.ok /\ out.date = 0 - 1

\* the most calls one invocation can make: two geocoders for the origin, and
\* then either two geocoders for each destination and, for each tier, the route,
\* two POI providers for each stop and the itinerary; or the suggestion, four
\* providers for each of at most 12 candidates and, for each tier, the route
\* and the itinerary
CallsAtMost ==
    LET n == Len(form.destinations)
        multi == (2 * n) + (3 * (2 + (2 * n)))
        suggested == 1 + (4 * 12) + (3 * 2)
    IN  2 + (IF multi > suggested THEN multi ELSE suggested)

\* how far an invocation has come: the stage, within the stages of the tiers
\* the tier, and within a loop over a list the items done and the step on the
\* current item
Progress ==
    LET sub == CASE pc \in { "Suggesting", "EnrichOtm", "TierOtm" } -> 1
                 [] pc \in { "ResolvingSuggestions", "EnrichWiki", "TierWiki" } -> 2
                 [] pc = "TierItinerary" -> 900
                 [] OTHER -> 0
        done == IF pc \in { "Validating", "ResolvingOrigin", "TierRoute", "TierItinerary", "Suggesting" }
                THEN 0 ELSE 20 - Len(pending)
    IN  (100000 * StageRank(pc)) + (1000 * tierIdx) + (3 * done) + sub

\* C30: every invocation comes to an end (each step takes it further, through
\* finitely many steps), with a result or with an input or infeasibility
\* error, after a bounded number of external calls
C30_TerminatesAsStated ==
    /\ [][Progress' > Progress]_vars
    /\ [](Len(calls) <= CallsAtMost)
    /\ [](Terminated => (pc = "Assembled" \/ error \in { "input", "infeasible" }))

====
